---- MODULE Spec2Model ----
(***************************************************************************)
(* Model of the KnC work-dispatch engine of driver-knc.c: the local        *)
(* pending queue (knc->workqueue), the in-flight table (knc->devicework),  *)
(* the discovered capacity (knc->workqueue_max), the identifier counter    *)
(* (knc->next_id), the flush flag (knc->need_flush) and the three entry    *)
(* points knc_queue_append, knc_queue_flush and knc_poll.                  *)
(*                                                                         *)
(* knc_poll is modelled in the order in which its code runs: the exchange  *)
(* (prune, encode, spi_txrx, read of the accepted count), then one step    *)
(* per reply record of the receive buffer, then the reconciliation.  No    *)
(* other entry point runs while a poll is in progress (pc # "idle").       *)
(***************************************************************************)
EXTENDS Integers, Sequences, FiniteSets, TLC

----------------------------------------------------------------------------
(* Program constants *)

KNC_POLL_INTERVAL_US == 10000
KNC_REQ_SUBMIT_WORK == 2
KNC_REQ_FLUSH_QUEUE == 3
KNC_REPLY_NONCE_FOUND == 1
KNC_REPLY_WORK_DONE == 2
InitialMax == 1
IdModulus == 32768
\* size_t spi_req_sz = 0x1000
SpiReqSz == 4096
\* uint8_t buf[0x30]: every frame, the flush frame too, is emitted whole
FrameSize == 48

(* Bounds of the model *)

\* works the producer hands to knc_queue_append in one run
MaxWork == 3
\* largest accepted count the device reports (a 16 bit field in the code)
MaxAccept == 2
\* reply records per receive buffer (340 in the code)
MaxRecords == 2

\* a null struct work * / struct cgpu_info *
NoWork == 0
NoProc == 0

----------------------------------------------------------------------------
VARIABLES
    workqueue,        \* knc->workqueue: DL list of works, head first
    workqueue_size,   \* knc->workqueue_size
    workqueue_max,    \* knc->workqueue_max
    next_id,          \* knc->next_id
    need_flush,       \* knc->need_flush
    devicework,       \* knc->devicework: uthash table, in insertion order
    queue_full,       \* thr->queue_full
    tv_poll,          \* thr->tv_poll, as the delay last requested (usecs)
    pc,               \* "idle", inside knc_poll ("decode", "reconcile"), or "fault"
    txbuf,            \* frames emitted to the SPI transmit buffer by the last poll
    txrx_ok,          \* result of spi_txrx in the poll in progress
    workaccept,       \* knc_poll's workaccept, as read from the receive buffer
    rx_left,          \* reply records of the receive buffer not yet decoded
    rxrec,            \* the reply record decoded by the last step
    calls,            \* calls made to the host by the last step
    next_work,        \* the next work the producer will offer
    last_op,          \* the entry point entered last
    append_ret,       \* the last return value of knc_queue_append
    flush_verdict,    \* stale_work(work, true) as evaluated by the last knc_queue_flush
    null_deref        \* what a dereference of a null pointer does on this build

vars == <<workqueue, workqueue_size, workqueue_max, next_id, need_flush, devicework,
          queue_full, tv_poll, pc, txbuf, txrx_ok, workaccept, rx_left, rxrec,
          calls, next_work, last_op, append_ret, flush_verdict, null_deref>>

----------------------------------------------------------------------------
(* Helpers on sequences *)

Range(s) == {s[i] : i \in 1..Len(s)}

\* DL_DELETE of every element of the list that is in S, order kept
Without(s, S) == SelectSeq(s, LAMBDA x : x \notin S)

Min(a, b) == IF a < b THEN a ELSE b

----------------------------------------------------------------------------
(* The processor list built by knc_detect_one / knc_init: the chips'       *)
(* processors follow each other through next_proc, the first processor of  *)
(* a chip is its own device, and the list ends with a null pointer.        *)

\* two chips (i2c slaves 0x20 and 0x21) of one processor each
ProcList == <<[device |-> 1, asicno |-> 0], [device |-> 2, asicno |-> 1]>>

Procs == 1..Len(ProcList)

next_proc(p) == IF p < Len(ProcList) THEN p + 1 ELSE NoProc

device(p) == ProcList[p].device

asicno_of(p) == ProcList[p].asicno

----------------------------------------------------------------------------
(* Inputs *)

AcceptCounts == 0..MaxAccept

\* identifiers a reply record carries: the ones the model assigns around the
\* wraparound, echoed by the device
DeviceIds == {0, 1}

\* (chip index, core offset) of a reply record: a processor of the list, a core
\* offset past the chip's processors, a chip that is not on the bus
Routes == {<<0, 0>>, <<0, 1>>, <<2, 0>>}

SkippedRecord(t) == [rtype |-> t, asicno |-> 0, coreno |-> 0, device_id |-> 0]

\* the fields of a record of type 0 or 3 are never decoded
Records ==
    {SkippedRecord(0), SkippedRecord(3)} \cup
    {[rtype |-> t, asicno |-> rt[1], coreno |-> rt[2], device_id |-> d] :
        t \in {KNC_REPLY_NONCE_FOUND, KNC_REPLY_WORK_DONE}, rt \in Routes, d \in DeviceIds}

\* a load through a null pointer ends the process (SIGSEGV), or, where page 0
\* is mapped, reads what is there
NullDerefOutcomes == {"segv", "reads"}

----------------------------------------------------------------------------
(* knc_init: the state after construction.                                 *)

InitRest ==
    /\ workqueue = <<>>
    /\ workqueue_size = 0
    /\ workqueue_max = InitialMax
    /\ need_flush = FALSE
    /\ queue_full = FALSE
    /\ tv_poll = 0
    /\ pc = "idle"
    /\ txbuf = <<>>
    /\ txrx_ok = TRUE
    /\ workaccept = 0
    /\ rx_left = 0
    /\ rxrec = SkippedRecord(0)
    /\ calls = <<>>
    /\ next_work = 1
    /\ last_op = "init"
    /\ append_ret = FALSE
    /\ flush_verdict = FALSE
    /\ null_deref \in NullDerefOutcomes

Init ==
    /\ next_id = 0
    /\ devicework = <<>>
    /\ InitRest

(* The same device after a long run: the work accepted under identifier 0  *)
(* was never reported done, and IdModulus - 1 later works were accepted    *)
(* and reported done since, so that next_id has come round to it.          *)

OldWork == MaxWork + 1

InitWrap ==
    /\ next_id = IdModulus
    /\ devicework = <<[work |-> OldWork, device_id |-> 0]>>
    /\ InitRest

(* The device after a poll in which it reported FullMax accepted works,    *)
(* a value its 16 bit field can carry: the capacity is FullMax, and the     *)
(* producer has since filled the queue up to the last frame that fits the   *)
(* transmit buffer.                                                         *)

\* the submission frames that fit 0x1000 bytes
FramesPerBuffer == SpiReqSz \div FrameSize

FullMax == FramesPerBuffer + 1

InitFull ==
    /\ workqueue = [i \in 1..FramesPerBuffer |-> OldWork + i]
    /\ workqueue_size = FramesPerBuffer
    /\ workqueue_max = FullMax
    /\ next_id = 0
    /\ devicework = <<>>
    /\ need_flush = FALSE
    /\ queue_full = FALSE
    /\ tv_poll = 0
    /\ pc = "idle"
    /\ txbuf = <<>>
    /\ txrx_ok = TRUE
    /\ workaccept = 0
    /\ rx_left = 0
    /\ rxrec = SkippedRecord(0)
    /\ calls = <<>>
    /\ next_work = 1
    /\ last_op = "init"
    /\ append_ret = FALSE
    /\ flush_verdict = FALSE
    /\ null_deref \in NullDerefOutcomes

----------------------------------------------------------------------------
(* knc_prune_local_queue: every work of the queue that stale_work(work,    *)
(* false) judges stale is removed and freed.  stale is the set of works    *)
(* judged stale by this call.                                              *)

\* the verdicts stale_work(work, false) can give on the works of q in one
\* prune: any of the works handed in during the run may have gone stale; the
\* works that were queued before the run starts (InitFull) stay current
StaleChoices(q) == SUBSET (Range(q) \cap (1..MaxWork))

PrunedQueue(q, stale) == Without(q, stale)

PrunedSize(q, size, stale) == size - Cardinality(Range(q) \cap stale)

\* IsFull with the comparison off by one
IsFullOffByOne(size, max) == size > max

\* IsFull that never reports a full queue
IsFullNever(size, max) == FALSE

\* IsFull that always reports a full queue
IsFullAlways(size, max) == TRUE

IsFull(size, max) == size >= max

----------------------------------------------------------------------------
(* knc_queue_append *)

knc_queue_append ==
    /\ pc = "idle"
    /\ next_work <= MaxWork
    /\ \E stale1 \in StaleChoices(workqueue) :
         LET work == next_work
             mustprune == workqueue_size >= workqueue_max
             q1 == IF mustprune THEN PrunedQueue(workqueue, stale1) ELSE workqueue
             s1 == IF mustprune THEN PrunedSize(workqueue, workqueue_size, stale1)
                   ELSE workqueue_size
         IN  /\ (~mustprune) => stale1 = {}
             /\ IF mustprune /\ IsFull(s1, workqueue_max)
                THEN /\ workqueue' = q1
                     /\ workqueue_size' = s1
                     /\ queue_full' = TRUE
                     /\ append_ret' = FALSE
                     /\ next_work' = next_work
                ELSE \E stale2 \in StaleChoices(Append(q1, work)) :
                       LET q2 == Append(q1, work)
                           s2 == s1 + 1
                           full == IsFull(s2, workqueue_max)
                       IN  /\ (~full) => stale2 = {}
                           /\ workqueue' = IF full THEN PrunedQueue(q2, stale2) ELSE q2
                           /\ workqueue_size' =
                                IF full THEN PrunedSize(q2, s2, stale2) ELSE s2
                           /\ queue_full' =
                                IF full THEN IsFull(PrunedSize(q2, s2, stale2), workqueue_max)
                                ELSE FALSE
                           /\ append_ret' = TRUE
                           /\ next_work' = next_work + 1
    /\ last_op' = "append"
    /\ flush_verdict' = FALSE
    /\ UNCHANGED <<workqueue_max, next_id, need_flush, devicework, tv_poll, pc, txbuf,
                   txrx_ok, workaccept, rx_left, rxrec, calls, null_deref>>

----------------------------------------------------------------------------
(* knc_queue_flush *)

\* HASH_LAST_ADDED: the element at the tail of the table's insertion order
LastAdded(dw) == dw[Len(dw)]

\* HASH_LAST_ADDED on an empty table (head == NULL) dereferences the null head
FlushFaults(dw, nd) == dw = <<>> /\ nd = "segv"

\* the value of stale_work(work, true) in knc_queue_flush: the verdict of the
\* host on the last added work, or on what is read through the null head
FlushStale(dw, verdict) == verdict

\* FlushedQueue removing the head of the list only
FlushedQueueHeadOnly(q) == IF q = <<>> THEN <<>> ELSE Tail(q)

\* DL_FOREACH_SAFE + knc_remove_local_queue: what is left of the queue
FlushedQueue(q) == <<>>

knc_queue_flush ==
    /\ pc = "idle"
    /\ workqueue' = FlushedQueue(workqueue)
    /\ workqueue_size' = workqueue_size - (Len(workqueue) - Len(FlushedQueue(workqueue)))
    /\ queue_full' = FALSE
    /\ \E verdict \in BOOLEAN :
         LET stale == FlushStale(devicework, verdict)
         IN  IF FlushFaults(devicework, null_deref)
             THEN /\ pc' = "fault"
                  /\ flush_verdict' = FALSE
                  /\ UNCHANGED <<need_flush, tv_poll>>
             ELSE /\ pc' = "idle"
                  /\ flush_verdict' = stale
                  /\ need_flush' = IF stale THEN TRUE ELSE need_flush
                  /\ tv_poll' = IF stale THEN 0 ELSE tv_poll
    /\ last_op' = "flush"
    /\ append_ret' = FALSE
    /\ UNCHANGED <<workqueue_max, next_id, devicework, txbuf, txrx_ok, workaccept,
                   rx_left, rxrec, calls, next_work, null_deref>>

----------------------------------------------------------------------------
(* knc_poll, first part: prune, encode, exchange, read of the accepted     *)
(* count.                                                                  *)

\* buf[2] = (workid >> 8) & 0x7f; buf[3] = workid & 0xff, read back big-endian
EncodeId(workid) == ((workid \div 256) % 128) * 256 + (workid % 256)

FlushFrame == [cmd |-> KNC_REQ_FLUSH_QUEUE, id |-> 0, work |-> NoWork]

SubmitFrame(workid, work) ==
    [cmd |-> KNC_REQ_SUBMIT_WORK, id |-> EncodeId(workid), work |-> work]

\* the frames emitted before the padding
EncodeTx(flush, q, workid) ==
    (IF flush THEN <<FlushFrame>> ELSE <<>>) \o
    [i \in 1..Len(q) |-> SubmitFrame(workid + i - 1, q[i])]

\* spi_getbufsz(spi) after the frames have been emitted
TxBytes(buf) == Len(buf) * FrameSize

\* spi_req_sz - spi_getbufsz(spi), the argument of spi_emit_nop, as the
\* difference of the two values.  The operands are size_t: a difference
\* below zero reaches spi_emit_nop as SIZE_MAX + 1 + NopLength(bytes).
NopLength(bytes) == SpiReqSz - bytes

\* the subtraction wraps around
NopWraps(bytes) == NopLength(bytes) < 0

\* The result of spi_txrx is not looked at: after a failed exchange the
\* receive buffer holds whatever it held before, and is decoded all the same.
knc_poll_exchange ==
    /\ pc = "idle"
    /\ \E stale \in StaleChoices(workqueue), ok \in BOOLEAN :
         /\ workqueue' = PrunedQueue(workqueue, stale)
         /\ workqueue_size' = PrunedSize(workqueue, workqueue_size, stale)
         /\ queue_full' = IsFull(PrunedSize(workqueue, workqueue_size, stale), workqueue_max)
         /\ txbuf' = EncodeTx(need_flush, PrunedQueue(workqueue, stale), next_id)
         /\ txrx_ok' = ok
    /\ rx_left' = MaxRecords
    /\ pc' = "decode"
    /\ last_op' = "poll"
    /\ append_ret' = FALSE
    /\ flush_verdict' = FALSE
    /\ UNCHANGED <<workqueue_max, next_id, need_flush, devicework, tv_poll, workaccept,
                   rxrec, calls, next_work, null_deref>>

----------------------------------------------------------------------------
(* knc_poll, the reply records: routing to a processor.  NoProc is a null  *)
(* pointer; the code dereferences it.                                      *)

\* do { proc = proc->next_proc; } while (proc != proc->device);
RECURSIVE NextDevice(_)
NextDevice(p) ==
    LET n == next_proc(p)
    IN  IF n = NoProc THEN NoProc
        ELSE IF n = device(n) THEN n
        ELSE NextDevice(n)

\* while (true) { if (knccore->asicno == asicno) break; ... }
RECURSIVE FindChip(_, _)
FindChip(p, asicno) ==
    IF p = NoProc THEN NoProc
    ELSE IF asicno_of(p) = asicno THEN p
    ELSE FindChip(NextDevice(p), asicno)

\* for (i = 0; i < coreno; ++i) proc = proc->next_proc;
RECURSIVE Advance(_, _)
Advance(p, n) ==
    IF p = NoProc THEN NoProc
    ELSE IF n = 0 THEN p
    ELSE Advance(next_proc(p), n - 1)

RouteRecord(asicno, coreno) == Advance(FindChip(1, asicno), coreno)

\* HASH_FIND_INT: the positions of the table that hold the key
Matches(dw, id) == {i \in 1..Len(dw) : dw[i].device_id = id}

\* HASH_DEL of the element at position i
HashDel(dw, i) == SubSeq(dw, 1, i - 1) \o SubSeq(dw, i + 1, Len(dw))

IsReply(r) == r.rtype \in {KNC_REPLY_NONCE_FOUND, KNC_REPLY_WORK_DONE}

Call(fn, p, w) == [fn |-> fn, proc |-> p, work |-> w]

\* the record is of a type the loop skips
RecordSkipped(r) ==
    /\ ~IsReply(r)
    /\ calls' = <<>>
    /\ UNCHANGED devicework

\* RecordUnknown without the call of inc_hw_errors2
RecordUnknownNoCount(r, p) ==
    /\ Matches(devicework, r.device_id) = {}
    /\ calls' = <<>>
    /\ UNCHANGED devicework

\* RecordUnknown looking the device_id up among the works submitted in this
\* poll as well
RecordUnknownMatchesPending(r, p) ==
    /\ Matches(devicework, r.device_id) = {}
    /\ LET sent == {i \in 1..Len(workqueue) : EncodeId(next_id + i - 1) = r.device_id}
       IN  calls' =
             IF sent # {} /\ r.rtype = KNC_REPLY_NONCE_FOUND
             THEN <<Call("submit_nonce", p, workqueue[CHOOSE i \in sent : TRUE])>>
             ELSE <<Call("inc_hw_errors2", p, NoWork)>>
    /\ UNCHANGED devicework

\* the record's device_id is not in the table
RecordUnknown(r, p) ==
    /\ Matches(devicework, r.device_id) = {}
    /\ calls' = <<Call("inc_hw_errors2", p, NoWork)>>
    /\ UNCHANGED devicework

\* RecordKnown taking the work out of the table on a nonce as well
RecordKnownNonceRemoves(r, p, i) ==
    /\ i \in Matches(devicework, r.device_id)
    /\ devicework' = HashDel(devicework, i)
    /\ calls' =
         IF r.rtype = KNC_REPLY_NONCE_FOUND
         THEN <<Call("submit_nonce", p, devicework[i].work)>>
         ELSE <<Call("free_work", NoProc, devicework[i].work),
                Call("hashes_done2", p, NoWork)>>

\* the record's device_id is in the table, at position i
RecordKnown(r, p, i) ==
    /\ i \in Matches(devicework, r.device_id)
    /\ IF r.rtype = KNC_REPLY_NONCE_FOUND
       THEN /\ calls' = <<Call("submit_nonce", p, devicework[i].work)>>
            /\ UNCHANGED devicework
       ELSE /\ devicework' = HashDel(devicework, i)
            /\ calls' = <<Call("free_work", NoProc, devicework[i].work),
                          Call("hashes_done2", p, NoWork)>>

RecordRouted(r, p) ==
    \/ RecordUnknown(r, p)
    \/ \E i \in 1..Len(devicework) : RecordKnown(r, p, i)

knc_poll_record ==
    /\ pc = "decode"
    /\ rx_left > 0
    /\ \E r \in Records :
         /\ rxrec' = r
         /\ rx_left' = rx_left - 1
         /\ \/ /\ RecordSkipped(r)
               /\ pc' = IF rx_left = 1 THEN "reconcile" ELSE "decode"
            \/ /\ IsReply(r)
               /\ RouteRecord(r.asicno, r.coreno) # NoProc
               /\ RecordRouted(r, RouteRecord(r.asicno, r.coreno))
               /\ pc' = IF rx_left = 1 THEN "reconcile" ELSE "decode"
            \/ /\ IsReply(r)
               /\ RouteRecord(r.asicno, r.coreno) = NoProc
               /\ null_deref = "segv"
               /\ pc' = "fault"
               /\ calls' = <<>>
               /\ UNCHANGED devicework
            \/ /\ IsReply(r)
               /\ RouteRecord(r.asicno, r.coreno) = NoProc
               /\ null_deref # "segv"
               /\ \E p \in Procs : RecordRouted(r, p)
               /\ pc' = IF rx_left = 1 THEN "reconcile" ELSE "decode"
    /\ UNCHANGED <<workqueue, workqueue_size, workqueue_max, next_id, need_flush,
                   queue_full, tv_poll, txbuf, txrx_ok, workaccept, next_work,
                   last_op, append_ret, flush_verdict, null_deref>>

----------------------------------------------------------------------------
(* knc_poll, last part: the flush drain, the capacity, the move of the     *)
(* accepted works into the table, the next poll.                           *)

\* Drained without the HASH_ITER loop
DrainedNever(dw, flush) == dw

\* HASH_ITER + HASH_DEL over the whole table when need_flush is set
Drained(dw, flush) == IF flush THEN <<>> ELSE dw

\* NewMax without the comparison with the present capacity
NewMaxAlways(wa, max) == IF wa # 0 THEN wa ELSE max

\* if (workaccept) { if (workaccept >= knc->workqueue_max) knc->workqueue_max = workaccept; }
NewMax(wa, max) == IF wa # 0 /\ wa >= max THEN wa ELSE max

\* PollDelay without the need_flush branch
PollDelayNoFlush(flush, wa, max) ==
    IF wa # 0 /\ wa >= max THEN 0 ELSE KNC_POLL_INTERVAL_US

\* PollDelay with the comparison off by one
PollDelayGrowthOnly(flush, wa, max) ==
    IF flush \/ (wa # 0 /\ wa > max) THEN 0 ELSE KNC_POLL_INTERVAL_US

\* delay_usecs at the end of knc_poll
PollDelay(flush, wa, max) ==
    IF flush \/ (wa # 0 /\ wa >= max) THEN 0 ELSE KNC_POLL_INTERVAL_US

\* the number of works the DL_FOREACH_SAFE loop moves
Moved(wa, q) == Min(wa, Len(q))

\* AssignId without the mask
AssignIdNoMask(id) == id

\* work->device_id = knc->next_id++ & 0x7fff
AssignId(id) == id % IdModulus

\* HASH_ADD_INT of the first k works of q, no look-up of the key before
Accepted(dw, q, k, id) ==
    dw \o [i \in 1..k |-> [work |-> q[i], device_id |-> AssignId(id + i - 1)]]

\* Reconciled with the move done before the drain
ReconciledInsertFirst(dw, flush, q, k, id) == Drained(Accepted(dw, q, k, id), flush)

\* the table when knc_poll returns: the drain (504-513) runs first, the move
\* of the k accepted works second (515-532)
Reconciled(dw, flush, q, k, id) == Accepted(Drained(dw, flush), q, k, id)

\* the last part of knc_poll with wa the accepted count read from the buffer
PollReconcile(wa) ==
    LET k == Moved(wa, workqueue)
    IN  /\ pc = "reconcile"
        /\ workaccept' = wa
        /\ need_flush' = FALSE
        /\ workqueue_max' = NewMax(wa, workqueue_max)
        /\ devicework' = Reconciled(devicework, need_flush, workqueue, k, next_id)
        /\ workqueue' = SubSeq(workqueue, k + 1, Len(workqueue))
        /\ workqueue_size' = workqueue_size - k
        /\ next_id' = next_id + k
        /\ queue_full' =
             IF wa # 0
             THEN IsFull(workqueue_size - k, NewMax(wa, workqueue_max))
             ELSE queue_full
        /\ tv_poll' = PollDelay(need_flush, wa, workqueue_max)
        /\ pc' = "idle"
        /\ rxrec' = SkippedRecord(0)
        /\ calls' = <<>>
        /\ txrx_ok' = TRUE
        /\ UNCHANGED <<txbuf, rx_left, next_work, last_op, append_ret, flush_verdict,
                       null_deref>>

\* the device may report any accepted count
knc_poll_reconcile == \E wa \in AcceptCounts : PollReconcile(wa)

\* works_sent: the submission frames of the transmit buffer
WorksSent(buf) == Cardinality({i \in 1..Len(buf) : buf[i].cmd = KNC_REQ_SUBMIT_WORK})

\* the accepted count read from the receive buffer when the device accepts
\* a prefix of what it was sent; after a failed exchange the buffer still
\* holds the count of the exchange before
PrefixCount(wa) ==
    \/ wa <= WorksSent(txbuf)
    \/ ~txrx_ok /\ wa = workaccept

\* the last part of knc_poll with such a device
knc_poll_reconcile_prefix ==
    \E wa \in AcceptCounts : PrefixCount(wa) /\ PollReconcile(wa)

----------------------------------------------------------------------------

Next ==
    \/ knc_queue_append
    \/ knc_queue_flush
    \/ knc_poll_exchange
    \/ knc_poll_record
    \/ knc_poll_reconcile

Spec == Init /\ [][Next]_vars

SpecWrap == InitWrap /\ [][Next]_vars

\* The producer's entry points and knc_poll up to the exchange: the transmit
\* buffer is complete when spi_txrx is called, and the rest of knc_poll does
\* not write to it.
NextFull ==
    \/ knc_queue_append
    \/ knc_queue_flush
    \/ knc_poll_exchange

SpecFull == InitFull /\ [][NextFull]_vars

\* The driver with a device that never reports more accepted works than the
\* transaction submitted.
NextPrefix ==
    \/ knc_queue_append
    \/ knc_queue_flush
    \/ knc_poll_exchange
    \/ knc_poll_record
    \/ knc_poll_reconcile_prefix

SpecPrefix == Init /\ [][NextPrefix]_vars

----------------------------------------------------------------------------
(* Properties *)

PollExchangeStep == pc = "idle" /\ pc' = "decode"

PollRecordStep == pc = "decode" /\ rx_left' = rx_left - 1

PollReconcileStep == pc = "reconcile" /\ pc' = "idle"

FlushStep == pc = "idle" /\ last_op' = "flush"

HasFlushFrame(buf) == buf # <<>> /\ buf[1].cmd = KNC_REQ_FLUSH_QUEUE

Works(dw) == {dw[i].work : i \in 1..Len(dw)}

\* C1: the capacity starts at 1 and no step of knc_queue_append,
\* knc_queue_flush or knc_poll ever lowers it.
C1_CapacityMonotone ==
    /\ workqueue_max = InitialMax
    /\ [][workqueue_max' >= workqueue_max]_vars

\* a state in which the capacity has grown
C1_Witness == pc = "idle" /\ workqueue_max > InitialMax

\* C2: whenever an entry point has returned, the number of works in the local
\* pending queue is at most the capacity, and workqueue_size is that number.
C2_SizeWithinCapacity ==
    pc = "idle" =>
        /\ workqueue_size = Len(workqueue)
        /\ workqueue_size <= workqueue_max

\* the queue filled up to a capacity that has grown
C2_Witness ==
    /\ pc = "idle"
    /\ last_op = "append"
    /\ workqueue_max >= 2
    /\ Len(workqueue) = workqueue_max

\* C3: when the device reports k accepted works and n >= k works are pending,
\* the reconciliation moves exactly the first k pending works, in order, to
\* the end of the in-flight table, the i-th under the identifier
\* (next_id + i) mod 2^15 that its submission frame carried; the other works
\* stay pending in their order and next_id advances by k.
C3_FifoPrefix ==
    [][(PollReconcileStep /\ workaccept' <= Len(workqueue)) =>
        LET k == workaccept'
            n == Len(workqueue)
            m == Len(devicework')
        IN  /\ m >= k
            /\ \A i \in 1..k :
                 /\ devicework'[m - k + i].work = workqueue[i]
                 /\ devicework'[m - k + i].device_id = (next_id + i - 1) % IdModulus
                 /\ \E f \in 1..Len(txbuf) :
                      /\ txbuf[f].cmd = KNC_REQ_SUBMIT_WORK
                      /\ txbuf[f].work = workqueue[i]
                      /\ txbuf[f].id = devicework'[m - k + i].device_id
            /\ Works(devicework') \ Works(devicework) = {workqueue[i] : i \in 1..k}
            /\ workqueue' = SubSeq(workqueue, k + 1, n)
            /\ next_id' = next_id + k
    ]_vars

\* a poll has accepted some but not all of the pending works, after the wraparound
C3_Witness ==
    /\ pc = "idle"
    /\ last_op = "poll"
    /\ workaccept >= 1
    /\ workqueue # <<>>
    /\ devicework # <<>>
    /\ next_id > IdModulus
    /\ LastAdded(devicework).device_id = (next_id - 1) % IdModulus

\* C4: no two entries of the in-flight table share a device_id.
C4_UniqueIds ==
    \A i, j \in 1..Len(devicework) :
        i # j => devicework[i].device_id # devicework[j].device_id

\* C5: after a failed exchange the poll decodes no record and accepts nothing:
\* queue, table, capacity, next_id and need_flush stay as the prune left
\* them, no call is made to the host, and the next poll is at the normal interval.
C5_TransportAbort ==
    [][(pc \in {"decode", "reconcile"} /\ ~txrx_ok) =>
        /\ UNCHANGED <<workqueue, devicework, workqueue_max, next_id, need_flush>>
        /\ calls' = <<>>
        /\ (pc' = "idle" => tv_poll' = KNC_POLL_INTERVAL_US)
    ]_vars

\* the processors of the chip with this index
ChipProcs(asicno) == {p \in Procs : asicno_of(p) = asicno}

\* no processor of the list has this chip index and core offset
Unroutable(r) == r.coreno >= Cardinality(ChipProcs(r.asicno))

\* C6: a NonceFound or WorkDone record that names no known core is dropped:
\* the poll goes on, the record calls nothing and changes nothing.
C6_UnroutableDropped ==
    [][(PollRecordStep /\ IsReply(rxrec') /\ Unroutable(rxrec')) =>
        /\ pc' # "fault"
        /\ calls' = <<>>
        /\ devicework' = devicework
    ]_vars

\* C7: a routed NonceFound or WorkDone record whose device_id is not in the
\* in-flight table makes exactly one call, inc_hw_errors2 for the routed
\* processor and with no work, and leaves the table as it is.
C7_UnknownIdCounted ==
    [][(/\ PollRecordStep
        /\ IsReply(rxrec')
        /\ RouteRecord(rxrec'.asicno, rxrec'.coreno) # NoProc
        /\ Matches(devicework, rxrec'.device_id) = {}) =>
        /\ devicework' = devicework
        /\ calls' = <<[fn |-> "inc_hw_errors2",
                       proc |-> RouteRecord(rxrec'.asicno, rxrec'.coreno),
                       work |-> NoWork]>>
        /\ pc' # "fault"
    ]_vars

\* a hardware error was counted while other works were in flight
C7_Witness ==
    /\ pc \in {"decode", "reconcile"}
    /\ IsReply(rxrec)
    /\ devicework # <<>>
    /\ Matches(devicework, rxrec.device_id) = {}
    /\ Len(calls) = 1
    /\ calls[1].fn = "inc_hw_errors2"

\* C8: a knc_queue_flush that follows a knc_queue_flush directly, with the
\* same staleness verdict, changes nothing; every flush leaves the queue
\* empty, and need_flush stays set.
C8_FlushIdempotent ==
    [][FlushStep =>
        /\ workqueue' = <<>>
        /\ (need_flush => need_flush')
        /\ (last_op = "flush" /\ flush_verdict' = flush_verdict) =>
              UNCHANGED <<workqueue, workqueue_size, devicework, workqueue_max, next_id,
                          need_flush, queue_full, tv_poll, pc>>
    ]_vars

\* a flush has discarded the queue and set need_flush; a second one can follow
C8_Witness ==
    /\ pc = "idle"
    /\ last_op = "flush"
    /\ flush_verdict
    /\ need_flush
    /\ devicework # <<>>
    /\ tv_poll = 0

\* C9: in every state knc_queue_flush returns, having emptied the queue and
\* left table, capacity and next_id alone; it sets need_flush and requests an
\* immediate poll exactly when the last added in-flight work is judged
\* stale, and leaves need_flush alone otherwise.
C9_FlushFrame ==
    [][FlushStep =>
        /\ pc' = "idle"
        /\ workqueue' = <<>>
        /\ workqueue_size' = 0
        /\ UNCHANGED <<devicework, workqueue_max, next_id>>
        /\ IF devicework # <<>> /\ flush_verdict'
           THEN need_flush' /\ tv_poll' = 0
           ELSE UNCHANGED <<need_flush, tv_poll>>
    ]_vars

\* C10: the transmit buffer of a poll starts with a flush frame exactly when
\* need_flush is set at its entry; such a poll ends with need_flush clear,
\* none of the works that were still in flight left in the table, and a zero
\* delay; nothing but the end of a poll clears need_flush.
C10_FlushCycle ==
    [][/\ PollExchangeStep => (HasFlushFrame(txbuf') <=> need_flush)
       /\ PollExchangeStep =>
            \A i \in 2..Len(txbuf') : txbuf'[i].cmd = KNC_REQ_SUBMIT_WORK
       /\ pc \in {"decode", "reconcile"} => (HasFlushFrame(txbuf) <=> need_flush)
       /\ (PollReconcileStep /\ HasFlushFrame(txbuf)) =>
            /\ ~need_flush'
            /\ tv_poll' = 0
            /\ Works(devicework) \cap Works(devicework') = {}
       /\ (need_flush /\ ~need_flush') => PollReconcileStep
    ]_vars

\* a poll that sent the flush frame has ended: the work in flight is gone
C10_Witness ==
    /\ pc = "idle"
    /\ last_op = "poll"
    /\ HasFlushFrame(txbuf)
    /\ ~need_flush
    /\ tv_poll = 0
    /\ devicework = <<>>

----------------------------------------------------------------------------
\* C11: at the end of a poll cycle, an accepted count at or above the capacity
\* the poll was entered with makes the capacity exactly that count and the next
\* poll immediate; need_flush set at entry makes the next poll immediate; in
\* every other case the capacity is unchanged and the next poll is requested
\* KNC_POLL_INTERVAL_US later.
C11_CapacityAndDelay ==
    [][PollReconcileStep =>
         /\ (workaccept' >= workqueue_max) =>
              (workqueue_max' = workaccept' /\ tv_poll' = 0)
         /\ need_flush => tv_poll' = 0
         /\ (~(workaccept' >= workqueue_max) /\ ~need_flush) =>
              (workqueue_max' = workqueue_max /\ tv_poll' = KNC_POLL_INTERVAL_US)]_vars

\* a poll has raised the capacity to the accepted count and asked for an
\* immediate poll
C11_Witness ==
    /\ pc = "idle"
    /\ last_op = "poll"
    /\ workaccept > InitialMax
    /\ workqueue_max = workaccept
    /\ tv_poll = 0

\* C12 as stated: a poll entered with need_flush clear that leaves the
\* capacity as it was requests the next poll at the normal interval.
C12_NoGrowthNormalInterval ==
    [][(PollReconcileStep /\ ~need_flush /\ workqueue_max' = workqueue_max) =>
         tv_poll' = KNC_POLL_INTERVAL_US]_vars

\* C12 amended: a poll entered with need_flush clear requests the next poll at
\* zero delay exactly when the accepted count is at or above the capacity, the
\* case of a count equal to the capacity (capacity 1, one work accepted)
\* included, where the capacity stays as it was; below the capacity the normal
\* interval applies.
C12_EqualCountZeroDelay ==
    [][(PollReconcileStep /\ ~need_flush) =>
         /\ (tv_poll' = 0) <=> (workaccept' >= workqueue_max)
         /\ (tv_poll' # 0) => tv_poll' = KNC_POLL_INTERVAL_US
         /\ (workaccept' = workqueue_max) =>
              (workqueue_max' = workqueue_max /\ tv_poll' = 0)]_vars

\* capacity 1, no flush, one work accepted: the capacity is still 1 and the
\* next poll is immediate
C12_Witness ==
    /\ pc = "idle"
    /\ last_op = "poll"
    /\ ~HasFlushFrame(txbuf)
    /\ workaccept = InitialMax
    /\ workqueue_max = InitialMax
    /\ devicework # <<>>
    /\ tv_poll = 0

\* C13: once a WorkDone record has removed a work from the table, no entry
\* is left under its device_id, so every later NonceFound or WorkDone record
\* with that device_id is handled as an unknown identifier until knc_poll
\* inserts a newly accepted work under it; a record step names no work that
\* is not in the table when the step starts.
C13_DoneIdUnknown ==
    [][/\ (PollRecordStep /\ Len(devicework') < Len(devicework)) =>
            /\ rxrec'.rtype = KNC_REPLY_WORK_DONE
            /\ Matches(devicework', rxrec'.device_id) = {}
       /\ \A d \in DeviceIds :
            (Matches(devicework, d) = {} /\ Matches(devicework', d) # {}) =>
               /\ PollReconcileStep
               /\ \A i \in Matches(devicework', d) :
                    devicework'[i].work \in Range(workqueue)
       /\ PollRecordStep =>
            \A j \in 1..Len(calls') :
               calls'[j].work # NoWork => calls'[j].work \in Works(devicework)]_vars

AppendStep == pc = "idle" /\ last_op' = "append"

\* q with the works of the set S taken out is s
PrunedTo(q, s) == s = Without(q, Range(q) \ Range(s))

\* C14: knc_queue_append appends the work at the tail and returns true when
\* the size is below the capacity, or when it is not but pruning removes
\* something; otherwise it returns false and leaves the queue, the table, the
\* capacity and next_id as they were.  So with capacity 1 and nothing pruned,
\* an append that finds a work in the queue returns false.
C14_EnqueueBackpressure ==
    [][AppendStep =>
         /\ (workqueue_size < workqueue_max) => append_ret'
         /\ append_ret' =>
              /\ next_work' = next_work + 1
              /\ PrunedTo(Append(workqueue, next_work), workqueue')
              /\ (workqueue_size >= workqueue_max) =>
                   ~(Range(workqueue) \subseteq Range(workqueue'))
         /\ (~append_ret') =>
              /\ workqueue_size >= workqueue_max
              /\ UNCHANGED <<workqueue, workqueue_size, devicework, workqueue_max,
                             next_id, next_work>>
         /\ (/\ workqueue_max = InitialMax
             /\ workqueue # <<>>
             /\ Range(workqueue) \subseteq Range(workqueue')) => ~append_ret']_vars

\* capacity 1: the first append was taken, the second has just been refused
C14_Witness ==
    /\ pc = "idle"
    /\ last_op = "append"
    /\ ~append_ret
    /\ workqueue_max = InitialMax
    /\ workqueue = <<1>>
    /\ next_work = 2
    /\ queue_full

\* C15: a routable reply record whose device_id is in the table: NonceFound
\* hands (work, nonce) to submit_nonce on the routed processor and leaves the
\* table as it is, so that further NonceFound records find the same work;
\* WorkDone takes exactly that entry out, frees its work and reports exactly
\* one unit of completed work on the routed processor, every other entry
\* being left in place.
C15_KnownRecord ==
    [][(/\ PollRecordStep
        /\ IsReply(rxrec')
        /\ RouteRecord(rxrec'.asicno, rxrec'.coreno) # NoProc
        /\ Matches(devicework, rxrec'.device_id) # {}) =>
          \E i \in Matches(devicework, rxrec'.device_id) :
             LET p == RouteRecord(rxrec'.asicno, rxrec'.coreno)
                 work == devicework[i].work
             IN  IF rxrec'.rtype = KNC_REPLY_NONCE_FOUND
                 THEN /\ calls' = <<Call("submit_nonce", p, work)>>
                      /\ devicework' = devicework
                 ELSE /\ calls' = <<Call("free_work", NoProc, work),
                                    Call("hashes_done2", p, NoWork)>>
                      /\ devicework' = HashDel(devicework, i)
                      /\ work \notin Works(devicework')
                      /\ Works(devicework') = Works(devicework) \ {work}]_vars

\* a nonce has been forwarded for a work that is still in the table
C15_Witness ==
    /\ pc \in {"decode", "reconcile"}
    /\ rxrec.rtype = KNC_REPLY_NONCE_FOUND
    /\ Len(calls) = 1
    /\ calls[1].fn = "submit_nonce"
    /\ calls[1].work \in Works(devicework)
    /\ Len(devicework) > 1

\* C16: in every poll cycle the frames emitted (the flush frame, if any, and
\* one frame of 0x30 bytes per pending work) take no more than the 0x1000
\* bytes of the request, so that the padding length is not negative and
\* frames and padding add up to 0x1000 bytes.
C16_BufferFits ==
    /\ TxBytes(txbuf) <= SpiReqSz
    /\ ~NopWraps(TxBytes(txbuf))

\* the identifiers knc_poll assigns when it moves k works into the table
NewIds(k) == {AssignId(next_id + i - 1) : i \in 1..k}

\* the reconciliation follows a reply record whose device_id is one of the
\* identifiers this poll assigns
SameCycleRecord ==
    /\ PollReconcileStep
    /\ IsReply(rxrec)
    /\ calls # <<>>
    /\ rxrec.device_id \in NewIds(Len(workqueue) - Len(workqueue'))

\* C17 as stated: the works accepted in a poll are in the table before the
\* poll's reply records are matched, so a record with an identifier assigned
\* in this poll is matched to the newly accepted work.
C17_AcceptedBeforeRecords ==
    [][SameCycleRecord =>
         \E i \in 1..(Len(workqueue) - Len(workqueue')) :
            /\ AssignId(next_id + i - 1) = rxrec.device_id
            /\ calls[1].work = workqueue[i]]_vars

\* C17 amended: the reply records of a poll are matched against the table
\* as it was when the poll started, and the works accepted in the poll are
\* moved into it afterwards: a record step leaves the queue and next_id
\* alone and names no pending work, and a record with an identifier assigned
\* in this poll is counted as unknown or matched to an older entry, never to
\* the newly accepted work.
C17_RecordsBeforeAccepted ==
    [][/\ PollRecordStep =>
            /\ UNCHANGED <<workqueue, workqueue_size, next_id>>
            /\ \A j \in 1..Len(calls') : calls'[j].work \notin Range(workqueue)
            /\ Works(devicework') \subseteq Works(devicework)
       /\ SameCycleRecord =>
            /\ \A j \in 1..Len(calls) : calls[j].work \notin Range(workqueue)
            /\ \/ calls[1].fn = "inc_hw_errors2"
               \/ /\ calls[1].work # NoWork
                  /\ calls[1].work \notin Range(workqueue)]_vars

\* a nonce record carrying the identifier of this poll's first submission
\* frame has been counted as unknown while its work is still pending
C17_Witness ==
    /\ pc = "reconcile"
    /\ txrx_ok
    /\ workqueue # <<>>
    /\ Len(txbuf) > 0
    /\ txbuf[Len(txbuf)].work = workqueue[Len(workqueue)]
    /\ rxrec.rtype = KNC_REPLY_NONCE_FOUND
    /\ rxrec.device_id = AssignId(next_id)
    /\ Len(calls) = 1
    /\ calls[1].fn = "inc_hw_errors2"

\* C18: with a device that in every transaction reports an accepted count no
\* greater than the number of submission frames it was sent, the capacity
\* stays at its initial value 1 in every reachable state, and no more than
\* one work is ever pending or submitted.
C18_CapacityStaysInitial ==
    /\ workqueue_max = InitialMax
    /\ workqueue_size <= InitialMax
    /\ WorksSent(txbuf) <= InitialMax

\* with such a device a poll has accepted the one work it submitted, the
\* count equal to the capacity, and the capacity is still 1
C18_Witness ==
    /\ pc = "idle"
    /\ last_op = "poll"
    /\ WorksSent(txbuf) = 1
    /\ workaccept = 1
    /\ devicework # <<>>
    /\ workqueue_max = InitialMax

\* the capacity grows only in a poll in which the device reports more
\* accepted works than frames were submitted
GrowthNeedsOverReport ==
    [][(workqueue_max' > workqueue_max) =>
         (PollReconcileStep /\ workaccept' > WorksSent(txbuf))]_vars

\* C19: in a poll entered with need_flush set the table is drained before the
\* accepted works are inserted: when the poll returns the table holds exactly
\* the first min(accepted count, pending) works of the queue, in order, and
\* nothing else; it is empty only when no work was moved.
C19_FlushThenInsert ==
    [][(PollReconcileStep /\ need_flush) =>
         LET k == Min(workaccept', Len(workqueue))
         IN  /\ Len(devicework') = k
             /\ \A i \in 1..k :
                  /\ devicework'[i].work = workqueue[i]
                  /\ devicework'[i].device_id = AssignId(next_id + i - 1)
             /\ (devicework' = <<>>) <=> (k = 0)
             /\ Works(devicework') \cap Works(devicework) = {}]_vars

\* a flush poll has returned with the works it accepted in the table, after
\* earlier works had been in it
C19_Witness ==
    /\ pc = "idle"
    /\ last_op = "poll"
    /\ HasFlushFrame(txbuf)
    /\ workaccept >= 1
    /\ devicework # <<>>
    /\ Len(devicework) = Min(workaccept, WorksSent(txbuf))
    /\ next_id > Len(devicework)

\* C20 as stated: whenever knc_queue_append returns true, the work passed in
\* is at the tail of the queue when the call returns.
C20_AppendedAtTail ==
    (pc = "idle" /\ last_op = "append" /\ append_ret) =>
        /\ workqueue # <<>>
        /\ workqueue[Len(workqueue)] = next_work - 1

\* C20 amended: when knc_queue_append returns true the work is at the tail
\* of the queue on return, or the append had filled the queue to the
\* capacity and the prune that follows it has judged the work stale, taken
\* it out and freed it; in that case the queue is not full on return.
C20_AppendedOrPruned ==
    [][(AppendStep /\ append_ret') =>
         /\ (next_work \in Range(workqueue')) =>
              workqueue'[Len(workqueue')] = next_work
         /\ (next_work \notin Range(workqueue')) =>
              /\ workqueue_size + 1 >= workqueue_max
              /\ PrunedTo(workqueue, workqueue')
              /\ workqueue_size' < workqueue_max
              /\ ~queue_full']_vars

\* knc_queue_append has returned true and the work it was given is not in
\* the queue
C20_Witness ==
    /\ pc = "idle"
    /\ last_op = "append"
    /\ append_ret
    /\ (next_work - 1) \notin Range(workqueue)
    /\ (next_work - 1) \notin Works(devicework)
    /\ ~queue_full

====
